---- MODULE Spec2Model ----
(***************************************************************************)
(* Model of the response-reshaping pipeline of mcp_massive: the option     *)
(* parser and the aggregator of filters.py and the flattener and the three *)
(* formatters of formatters.py; and of the ASGI application of            *)
(* entrypoint_railway.py that wraps the MCP application.                   *)
(*                                                                         *)
(* Python values are tagged records.  A Python str is the sequence of its  *)
(* characters, so that split, strip, startswith, subscripting and string   *)
(* building are computed, not assumed.  A dict is the sequence of its      *)
(* <<key, value>> pairs in insertion order, keys unique.  Every value      *)
(* carries its Python type in the field t, the first field of the record,  *)
(* so that values of different types compare as unequal.                   *)
(***************************************************************************)
EXTENDS Integers, Sequences, FiniteSets, TLC

VARIABLES
    call,      \* name of the function called, "none" before the call
    arg,       \* the arguments of the call, by parameter name
    ret,       \* what the call returned or raised
    locals,    \* local variables of the call that its result is built from
    nagg,      \* number of _apply_aggregation calls chained so far
    scope,     \* the ASGI scope app was called with
    stream,    \* the messages of the request, as receive delivers them
    delivered, \* number of messages of the stream that receive has delivered
    pc,        \* where the coroutine app stands
    message,   \* read_body: the message received last
    chunks,    \* read_body: the body chunks collected
    frame,     \* local variables of app
    sent,      \* the messages app handed to send, in order
    handed,    \* number of calls of the MCP application
    raised     \* the exception that left app, None when there is none

vars == <<call, arg, ret, locals, nagg,
          scope, stream, delivered, pc, message, chunks, frame, sent, handed, raised>>

\* the variables of the ASGI application
wrapped_vars ==
    <<scope, stream, delivered, pc, message, chunks, frame, sent, handed, raised>>

(***************************************************************************)
(* Bounds of the model.                                                    *)
(***************************************************************************)
MaxSpecLen == 3
MaxRecords == 2
MaxKeys == 2
MaxAggs == 2
MaxChunks == 2

(***************************************************************************)
(* Python values.                                                          *)
(***************************************************************************)
None == [t |-> "NoneType"]
PyStr(chars) == [t |-> "str", v |-> chars]
PyInt(n) == [t |-> "int", v |-> n]
PyBool(b) == [t |-> "bool", v |-> b]
PyList(items) == [t |-> "list", v |-> items]
PyDict(pairs) == [t |-> "dict", v |-> pairs]
Raise(exc, msg) == [t |-> "raise", exc |-> exc, msg |-> msg]
Pending == [t |-> "pending"]

IsRaise(x) == x.t = "raise"
IsDict(x) == x.t = "dict"
IsList(x) == x.t = "list"
IsStr(x) == x.t \in {"str", "text"}

\* bool(x), as `if x:` and `not x` evaluate it
Truthy(x) ==
    CASE x.t = "NoneType" -> FALSE
      [] x.t = "bool" -> x.v
      [] x.t = "int" -> x.v # 0
      [] x.t = "str" -> Len(x.v) > 0
      [] x.t = "list" -> Len(x.v) > 0
      [] x.t = "dict" -> Len(x.v) > 0
      [] OTHER -> TRUE

Range(s) == {s[i] : i \in 1..Len(s)}

RECURSIVE Concat(_)
\* "".join(parts)
Concat(parts) ==
    IF parts = <<>> THEN <<>> ELSE Head(parts) \o Concat(Tail(parts))

RECURSIVE JoinStr(_, _)
\* sep.join(parts)
JoinStr(sep, parts) ==
    IF parts = <<>> THEN <<>>
    ELSE IF Len(parts) = 1 THEN parts[1]
    ELSE parts[1] \o sep \o JoinStr(sep, Tail(parts))

\* s.startswith(prefix)
startswith(s, prefix) ==
    Len(s) >= Len(prefix) /\ SubSeq(s, 1, Len(prefix)) = prefix

\* the characters str.strip() with no argument removes
Whitespace == {" ", "\t", "\n", "\r"}

RECURSIVE lstrip(_)
lstrip(s) ==
    IF s # <<>> /\ Head(s) \in Whitespace THEN lstrip(Tail(s)) ELSE s

RECURSIVE rstrip(_)
rstrip(s) ==
    IF s # <<>> /\ s[Len(s)] \in Whitespace
    THEN rstrip(SubSeq(s, 1, Len(s) - 1)) ELSE s

\* strip() that trims the left side only
strip_left_only(s) == lstrip(s)

\* s.strip()
strip(s) == rstrip(lstrip(s))

RECURSIVE split(_, _)
\* s.split(sep) for a one-character separator
split(s, sep) ==
    IF \A i \in 1..Len(s) : s[i] # sep THEN <<s>>
    ELSE LET i == CHOOSE j \in 1..Len(s) :
                      s[j] = sep /\ \A k \in 1..(j - 1) : s[k] # sep
         IN  <<SubSeq(s, 1, i - 1)>> \o split(SubSeq(s, i + 1, Len(s)), sep)

RECURSIVE SelectNonEmptyStripped(_)
\* [f.strip() for f in parts if f.strip()]
SelectNonEmptyStripped(parts) ==
    IF parts = <<>> THEN <<>>
    ELSE LET f == strip(Head(parts))
         IN  (IF Len(f) > 0 THEN <<PyStr(f)>> ELSE <<>>)
                 \o SelectNonEmptyStripped(Tail(parts))

\* `key in d` for a dict d
HasKey(d, key) == \E i \in 1..Len(d.v) : d.v[i][1] = key

\* d[key] for a key that is present
GetItem(d, key) == d.v[CHOOSE i \in 1..Len(d.v) : d.v[i][1] = key][2]

\* d.get(key): None when the key is absent
DictGet(d, key) == IF HasKey(d, key) THEN GetItem(d, key) ELSE None

\* list(d.keys())
DictKeys(d) == [i \in 1..Len(d.v) |-> d.v[i][1]]

(***************************************************************************)
(* filters.py: the preset registry and the option parser.                  *)
(***************************************************************************)
FIELD_PRESETS ==
    LET raw == <<
         <<<<"p","r","i","c","e">>,
            <<<<"t","i","c","k","e","r">>,
              <<"c","l","o","s","e">>,
              <<"t","i","m","e","s","t","a","m","p">>>> >>,
         <<<<"l","a","s","t","_","p","r","i","c","e">>,
            <<<<"c","l","o","s","e">>>> >>,
         <<<<"o","h","l","c">>,
            <<<<"t","i","c","k","e","r">>,
              <<"o","p","e","n">>,
              <<"h","i","g","h">>,
              <<"l","o","w">>,
              <<"c","l","o","s","e">>,
              <<"t","i","m","e","s","t","a","m","p">>>> >>,
         <<<<"o","h","l","c","v">>,
            <<<<"t","i","c","k","e","r">>,
              <<"o","p","e","n">>,
              <<"h","i","g","h">>,
              <<"l","o","w">>,
              <<"c","l","o","s","e">>,
              <<"v","o","l","u","m","e">>,
              <<"t","i","m","e","s","t","a","m","p">>>> >>,
         <<<<"s","u","m","m","a","r","y">>,
            <<<<"t","i","c","k","e","r">>,
              <<"c","l","o","s","e">>,
              <<"v","o","l","u","m","e">>,
              <<"c","h","a","n","g","e","_","p","e","r","c","e","n","t">>>> >>,
         <<<<"m","i","n","i","m","a","l">>,
            <<<<"t","i","c","k","e","r">>,
              <<"c","l","o","s","e">>>> >>,
         <<<<"v","o","l","u","m","e">>,
            <<<<"t","i","c","k","e","r">>,
              <<"v","o","l","u","m","e">>,
              <<"t","i","m","e","s","t","a","m","p">>>> >>,
         <<<<"d","e","t","a","i","l","s">>,
            <<<<"t","i","c","k","e","r">>,
              <<"n","a","m","e">>,
              <<"m","a","r","k","e","t">>,
              <<"l","o","c","a","l","e">>,
              <<"p","r","i","m","a","r","y","_","e","x","c","h","a","n","g","e">>>> >>,
         <<<<"i","n","f","o">>,
            <<<<"t","i","c","k","e","r">>,
              <<"n","a","m","e">>,
              <<"d","e","s","c","r","i","p","t","i","o","n">>,
              <<"h","o","m","e","p","a","g","e","_","u","r","l">>>> >>,
         <<<<"n","e","w","s","_","h","e","a","d","l","i","n","e","s">>,
            <<<<"t","i","t","l","e">>,
              <<"p","u","b","l","i","s","h","e","d","_","u","t","c">>,
              <<"a","u","t","h","o","r">>>> >>,
         <<<<"n","e","w","s","_","s","u","m","m","a","r","y">>,
            <<<<"t","i","t","l","e">>,
              <<"d","e","s","c","r","i","p","t","i","o","n">>,
              <<"p","u","b","l","i","s","h","e","d","_","u","t","c">>,
              <<"a","r","t","i","c","l","e","_","u","r","l">>>> >>,
         <<<<"t","r","a","d","e">>,
            <<<<"p","r","i","c","e">>,
              <<"s","i","z","e">>,
              <<"t","i","m","e","s","t","a","m","p">>>> >>,
         <<<<"q","u","o","t","e">>,
            <<<<"b","i","d">>,
              <<"a","s","k">>,
              <<"b","i","d","_","s","i","z","e">>,
              <<"a","s","k","_","s","i","z","e">>,
              <<"t","i","m","e","s","t","a","m","p">>>> >>,
         <<<<"g","r","e","e","k","s">>,
            <<<<"d","e","t","a","i","l","s","_","t","i","c","k","e","r">>,
              <<"d","e","t","a","i","l","s","_","s","t","r","i","k","e","_","p","r","i","c","e">>,
              <<"d","e","t","a","i","l","s","_","e","x","p","i","r","a","t","i","o","n","_","d","a","t","e">>,
              <<"d","e","t","a","i","l","s","_","c","o","n","t","r","a","c","t","_","t","y","p","e">>,
              <<"g","r","e","e","k","s","_","d","e","l","t","a">>,
              <<"g","r","e","e","k","s","_","g","a","m","m","a">>,
              <<"g","r","e","e","k","s","_","t","h","e","t","a">>,
              <<"g","r","e","e","k","s","_","v","e","g","a">>,
              <<"i","m","p","l","i","e","d","_","v","o","l","a","t","i","l","i","t","y">>>> >>,
         <<<<"o","p","t","i","o","n","s","_","s","u","m","m","a","r","y">>,
            <<<<"d","e","t","a","i","l","s","_","t","i","c","k","e","r">>,
              <<"d","e","t","a","i","l","s","_","s","t","r","i","k","e","_","p","r","i","c","e">>,
              <<"d","e","t","a","i","l","s","_","e","x","p","i","r","a","t","i","o","n","_","d","a","t","e">>,
              <<"d","e","t","a","i","l","s","_","c","o","n","t","r","a","c","t","_","t","y","p","e">>,
              <<"d","a","y","_","c","l","o","s","e">>,
              <<"d","a","y","_","o","p","e","n">>,
              <<"d","a","y","_","v","o","l","u","m","e">>,
              <<"o","p","e","n","_","i","n","t","e","r","e","s","t">>,
              <<"i","m","p","l","i","e","d","_","v","o","l","a","t","i","l","i","t","y">>>> >>,
         <<<<"o","p","t","i","o","n","s","_","q","u","o","t","e">>,
            <<<<"d","e","t","a","i","l","s","_","t","i","c","k","e","r">>,
              <<"d","e","t","a","i","l","s","_","s","t","r","i","k","e","_","p","r","i","c","e">>,
              <<"d","e","t","a","i","l","s","_","c","o","n","t","r","a","c","t","_","t","y","p","e">>,
              <<"l","a","s","t","_","q","u","o","t","e","_","b","i","d">>,
              <<"l","a","s","t","_","q","u","o","t","e","_","a","s","k">>,
              <<"l","a","s","t","_","q","u","o","t","e","_","b","i","d","_","s","i","z","e">>,
              <<"l","a","s","t","_","q","u","o","t","e","_","a","s","k","_","s","i","z","e">>>> >>
        >>
    IN  PyDict([i \in 1..Len(raw) |->
            <<raw[i][1],
              PyList([j \in 1..Len(raw[i][2]) |-> PyStr(raw[i][2][j])])>>])

s_csv == <<"c","s","v">>
s_json == <<"j","s","o","n">>
s_compact == <<"c","o","m","p","a","c","t">>
s_first == <<"f","i","r","s","t">>
s_last == <<"l","a","s","t">>
s_results == <<"r","e","s","u","l","t","s">>
s_value == <<"v","a","l","u","e">>
s_preset_prefix == <<"p","r","e","s","e","t",":">>

FilterOptions(fields, exclude_fields, format, aggregate) ==
    [t |-> "FilterOptions",
     fields |-> fields, exclude_fields |-> exclude_fields,
     format |-> format, aggregate |-> aggregate, conditions |-> None]

UnknownPresetMessage(preset_name) ==
    <<"U","n","k","n","o","w","n"," ","p","r","e","s","e","t",":"," ">>
        \o preset_name
        \o <<"."," ","A","v","a","i","l","a","b","l","e"," ","p","r","e","s","e","t","s",":"," ">>
        \o JoinStr(<<",", " ">>, DictKeys(FIELD_PRESETS))

InvalidFormatMessage(output_format) ==
    <<"I","n","v","a","l","i","d"," ","o","u","t","p","u","t","_","f","o","r","m","a","t",":"," ">>
        \o (IF IsStr(output_format) THEN output_format.v ELSE <<"N","o","n","e">>)
        \o <<"."," ","M","u","s","t"," ","b","e"," ","'","c","s","v","'",","," ","'","j","s","o","n","'",","," ","o","r"," ","'","c","o","m","p","a","c","t","'">>

InvalidAggregateMessage(aggregate) ==
    <<"I","n","v","a","l","i","d"," ","a","g","g","r","e","g","a","t","e",":"," ">>
        \o aggregate.v
        \o <<"."," ","M","u","s","t"," ","b","e"," ","'","f","i","r","s","t","'",","," ","'","l","a","s","t","'",","," ","o","r"," ","N","o","n","e">>

\* parse_filter_params that validates every aggregate that is not None, the
\* empty string too
parse_filter_params_strict_aggregate(fields, output_format, aggregate) ==
    LET is_preset == Truthy(fields) /\ startswith(fields.v, s_preset_prefix)
        preset_name == SubSeq(fields.v, 8, Len(fields.v))
        field_list ==
            IF ~Truthy(fields) THEN None
            ELSE IF is_preset THEN DictGet(FIELD_PRESETS, preset_name)
            ELSE PyList(SelectNonEmptyStripped(split(fields.v, ",")))
    IN  IF is_preset /\ field_list = None
        THEN Raise("ValueError", UnknownPresetMessage(preset_name))
        ELSE IF output_format \notin {PyStr(s_csv), PyStr(s_json), PyStr(s_compact)}
        THEN Raise("ValueError", InvalidFormatMessage(output_format))
        ELSE IF aggregate # None /\ aggregate \notin {PyStr(s_first), PyStr(s_last)}
        THEN Raise("ValueError", InvalidAggregateMessage(aggregate))
        ELSE FilterOptions(field_list, None, output_format, aggregate)

parse_filter_params(fields, output_format, aggregate) ==
    LET is_preset == Truthy(fields) /\ startswith(fields.v, s_preset_prefix)
        preset_name == SubSeq(fields.v, 8, Len(fields.v))
        field_list ==
            IF ~Truthy(fields) THEN None
            ELSE IF is_preset THEN DictGet(FIELD_PRESETS, preset_name)
            ELSE PyList(SelectNonEmptyStripped(split(fields.v, ",")))
    IN  IF is_preset /\ field_list = None
        THEN Raise("ValueError", UnknownPresetMessage(preset_name))
        ELSE IF output_format \notin {PyStr(s_csv), PyStr(s_json), PyStr(s_compact)}
        THEN Raise("ValueError", InvalidFormatMessage(output_format))
        ELSE IF Truthy(aggregate) /\ aggregate \notin {PyStr(s_first), PyStr(s_last)}
        THEN Raise("ValueError", InvalidAggregateMessage(aggregate))
        ELSE FilterOptions(field_list, None, output_format, aggregate)

(***************************************************************************)
(* Python built-ins the pipeline uses.                                     *)
(***************************************************************************)
DigitChars == <<"0", "1", "2", "3", "4", "5", "6", "7", "8", "9">>

RECURSIVE NatDigits(_)
NatDigits(n) ==
    IF n < 10 THEN <<DigitChars[n + 1]>>
    ELSE NatDigits(n \div 10) \o <<DigitChars[(n % 10) + 1]>>

\* str(n) for an int
IntChars(n) == IF n < 0 THEN <<"-">> \o NatDigits(0 - n) ELSE NatDigits(n)

RECURSIVE repr(_)
\* repr(x); strings here hold no quote, backslash or control character, so
\* repr of a str is the str between single quotes
repr(x) ==
    CASE x.t = "NoneType" -> <<"N","o","n","e">>
      [] x.t = "bool" -> (IF x.v THEN <<"T","r","u","e">> ELSE <<"F","a","l","s","e">>)
      [] x.t = "int" -> IntChars(x.v)
      [] x.t = "str" -> <<"'">> \o x.v \o <<"'">>
      [] x.t = "list" ->
            <<"[">> \o JoinStr(<<",", " ">>, [i \in 1..Len(x.v) |-> repr(x.v[i])])
                \o <<"]">>
      [] x.t = "dict" ->
            <<"{">> \o JoinStr(<<",", " ">>,
                         [i \in 1..Len(x.v) |->
                             <<"'">> \o x.v[i][1] \o <<"'", ":", " ">>
                                 \o repr(x.v[i][2])])
                \o <<"}">>

\* str(x)
str(x) == IF x.t = "str" THEN x ELSE PyStr(repr(x))

RECURSIVE dict_from_items_first_wins(_)
\* a repeated key keeping its first value
dict_from_items_first_wins(items) ==
    IF items = <<>> THEN <<>>
    ELSE LET init == dict_from_items_first_wins(SubSeq(items, 1, Len(items) - 1))
             last == items[Len(items)]
         IN  IF \E i \in 1..Len(init) : init[i][1] = last[1]
             THEN init
             ELSE Append(init, last)

RECURSIVE dict_from_items(_)
\* dict(items): a repeated key keeps its first position and takes its last value
dict_from_items(items) ==
    IF items = <<>> THEN <<>>
    ELSE LET init == dict_from_items(SubSeq(items, 1, Len(items) - 1))
             last == items[Len(items)]
         IN  IF \E i \in 1..Len(init) : init[i][1] = last[1]
             THEN [i \in 1..Len(init) |->
                      IF init[i][1] = last[1] THEN last ELSE init[i]]
             ELSE Append(init, last)

\* {**d, key: value}
DictSet(d, key, value) == PyDict(dict_from_items(Append(d.v, <<key, value>>)))

\* the decimal value of a string of digits
RECURSIVE DigitsValue(_)
DigitsValue(s) ==
    IF s = <<>> THEN 0
    ELSE 10 * DigitsValue(SubSeq(s, 1, Len(s) - 1))
            + ((CHOOSE d \in 1..10 : DigitChars[d] = s[Len(s)]) - 1)

\* json.loads(s).  The text of a response is abstract: it either is no JSON
\* document or it is the document of a known value.  A str whose characters
\* are known is parsed when it is a JSON literal (null, true, false, an
\* unsigned integer, blanks around it allowed) and is no JSON document when it
\* starts like nothing JSON has.
json_loads(s) ==
    IF s.t = "text"
    THEN (IF s.valid THEN s.value ELSE Raise("JSONDecodeError", <<>>))
    ELSE LET body == strip(s.v)
         IN  CASE body = <<"n","u","l","l">> -> None
               [] body = <<"t","r","u","e">> -> PyBool(TRUE)
               [] body = <<"f","a","l","s","e">> -> PyBool(FALSE)
               [] /\ body # <<>>
                  /\ \A i \in 1..Len(body) : body[i] \in Range(DigitChars)
                  /\ (Len(body) = 1 \/ body[1] # "0") -> PyInt(DigitsValue(body))
               [] OTHER -> Raise("JSONDecodeError", <<>>)

(***************************************************************************)
(* formatters.py: the flattener.                                           *)
(***************************************************************************)
RECURSIVE flatten_items(_, _, _)
\* the list `items` that the loop of _flatten_dict builds from d.items()
flatten_items(pairs, parent_key, sep) ==
    IF pairs = <<>> THEN <<>>
    ELSE LET k == pairs[1][1]
             v == pairs[1][2]
             new_key == IF Len(parent_key) > 0 THEN parent_key \o sep \o k ELSE k
             here ==
                 IF IsDict(v)
                 THEN dict_from_items(flatten_items(v.v, new_key, sep))
                 ELSE IF IsList(v) THEN << <<new_key, str(v)>> >>
                 ELSE << <<new_key, v>> >>
         IN  here \o flatten_items(Tail(pairs), parent_key, sep)

_flatten_dict(d, parent_key, sep) ==
    PyDict(dict_from_items(flatten_items(d.v, parent_key, sep)))

\* the loop that flattens the records: a record that is no dict becomes
\* {"value": str(record)}
flatten_record(record) ==
    IF IsDict(record) THEN _flatten_dict(record, <<>>, <<"_">>)
    ELSE PyDict(<< <<s_value, str(record)>> >>)

flatten_records(records) == [i \in 1..Len(records) |-> flatten_record(records[i])]

\* {k: v for k, v in record.items() if k in fields}
KeepKeys(record, fields) ==
    PyDict(SelectSeq(record.v, LAMBDA p : PyStr(p[1]) \in Range(fields.v)))

\* {k: v for k, v in record.items() if k not in exclude_fields}
DropKeys(record, exclude_fields) ==
    PyDict(SelectSeq(record.v, LAMBDA p : PyStr(p[1]) \notin Range(exclude_fields.v)))

(***************************************************************************)
(* filters.py: the aggregator.                                             *)
(***************************************************************************)
\* records[0] and records[-1]
Subscript(records, which) ==
    CASE records.t = "list" ->
            (IF which = "first" THEN records.v[1] ELSE records.v[Len(records.v)])
      [] records.t = "str" ->
            PyStr(<<IF which = "first" THEN records.v[1] ELSE records.v[Len(records.v)]>>)
      [] records.t = "dict" -> Raise("KeyError", <<>>)
      [] OTHER -> Raise("TypeError", <<>>)

\* _apply_aggregation that rebuilds the envelope from the record alone and so
\* loses the other top-level keys
_apply_aggregation_drops_keys(d, method) ==
    IF ~((IsDict(d) /\ HasKey(d, s_results)) \/ IsList(d)) THEN d
    ELSE LET records == IF IsDict(d) THEN GetItem(d, s_results) ELSE d
             aggregated_record ==
                 IF method = PyStr(s_first) THEN Subscript(records, "first")
                 ELSE IF method = PyStr(s_last) THEN Subscript(records, "last")
                 ELSE Raise("ValueError",
                            <<"U","n","k","n","o","w","n"," ","a","g","g","r","e","g","a","t","i","o","n"," ","m","e","t","h","o","d",":"," ">> \o str(method).v)
         IN  IF ~Truthy(records) THEN d
             ELSE IF IsRaise(aggregated_record) THEN aggregated_record
             ELSE IF IsDict(d) /\ HasKey(d, s_results)
             THEN PyDict(<< <<s_results, PyList(<<aggregated_record>>)>> >>)
             ELSE PyList(<<aggregated_record>>)

\* _apply_aggregation that returns the record without the one-element list
\* around it
_apply_aggregation_unwrapped(d, method) ==
    IF ~((IsDict(d) /\ HasKey(d, s_results)) \/ IsList(d)) THEN d
    ELSE LET records == IF IsDict(d) THEN GetItem(d, s_results) ELSE d
             aggregated_record ==
                 IF method = PyStr(s_first) THEN Subscript(records, "first")
                 ELSE IF method = PyStr(s_last) THEN Subscript(records, "last")
                 ELSE Raise("ValueError",
                            <<"U","n","k","n","o","w","n"," ","a","g","g","r","e","g","a","t","i","o","n"," ","m","e","t","h","o","d",":"," ">> \o str(method).v)
         IN  IF ~Truthy(records) THEN d
             ELSE IF IsRaise(aggregated_record) THEN aggregated_record
             ELSE IF IsDict(d) /\ HasKey(d, s_results)
             THEN DictSet(d, s_results, aggregated_record)
             ELSE aggregated_record

_apply_aggregation(d, method) ==
    IF ~((IsDict(d) /\ HasKey(d, s_results)) \/ IsList(d)) THEN d
    ELSE LET records == IF IsDict(d) THEN GetItem(d, s_results) ELSE d
             aggregated_record ==
                 IF method = PyStr(s_first) THEN Subscript(records, "first")
                 ELSE IF method = PyStr(s_last) THEN Subscript(records, "last")
                 ELSE Raise("ValueError",
                            <<"U","n","k","n","o","w","n"," ","a","g","g","r","e","g","a","t","i","o","n"," ","m","e","t","h","o","d",":"," ">> \o str(method).v)
         IN  IF ~Truthy(records) THEN d
             ELSE IF IsRaise(aggregated_record) THEN aggregated_record
             ELSE IF IsDict(d) /\ HasKey(d, s_results)
             THEN DictSet(d, s_results, PyList(<<aggregated_record>>))
             ELSE PyList(<<aggregated_record>>)

(***************************************************************************)
(* The two serializers of the standard library, as the formatters call     *)
(* them.  Strings here hold no character that JSON escapes.                *)
(***************************************************************************)
RECURSIVE Spaces(_)
Spaces(n) == IF n = 0 THEN <<>> ELSE <<" ">> \o Spaces(n - 1)

RECURSIVE json_dumps(_, _, _)
\* json.dumps(x, indent=2) when pretty, json.dumps(x, separators=(",", ":"))
\* otherwise; level is the nesting depth of x
json_dumps(x, pretty, level) ==
    LET open_ == IF pretty THEN <<"\n">> \o Spaces(2 * (level + 1)) ELSE <<>>
        between == <<",">> \o open_
        close_ == IF pretty THEN <<"\n">> \o Spaces(2 * level) ELSE <<>>
        colon == IF pretty THEN <<":", " ">> ELSE <<":">>
    IN  CASE x.t = "NoneType" -> <<"n","u","l","l">>
          [] x.t = "bool" -> (IF x.v THEN <<"t","r","u","e">> ELSE <<"f","a","l","s","e">>)
          [] x.t = "int" -> IntChars(x.v)
          [] x.t = "str" -> <<"\"">> \o x.v \o <<"\"">>
          [] x.t = "list" ->
                IF x.v = <<>> THEN <<"[", "]">>
                ELSE <<"[">> \o open_
                       \o JoinStr(between,
                              [i \in 1..Len(x.v) |-> json_dumps(x.v[i], pretty, level + 1)])
                       \o close_ \o <<"]">>
          [] x.t = "dict" ->
                IF x.v = <<>> THEN <<"{", "}">>
                ELSE <<"{">> \o open_
                       \o JoinStr(between,
                              [i \in 1..Len(x.v) |->
                                  <<"\"">> \o x.v[i][1] \o <<"\"">> \o colon
                                      \o json_dumps(x.v[i][2], pretty, level + 1)])
                       \o close_ \o <<"}">>

RECURSIVE DoubleQuotes(_)
DoubleQuotes(s) ==
    IF s = <<>> THEN <<>>
    ELSE (IF Head(s) = "\"" THEN <<"\"", "\"">> ELSE <<Head(s)>>)
             \o DoubleQuotes(Tail(s))

\* one field as csv.writer writes it under QUOTE_MINIMAL
csv_field(value) ==
    LET text == IF value = None THEN <<>> ELSE str(value).v
    IN  IF \E i \in 1..Len(text) : text[i] \in {",", "\"", "\n", "\r"}
        THEN <<"\"">> \o DoubleQuotes(text) \o <<"\"">>
        ELSE text

\* writer.writerow(cells) with lineterminator="\n": a row of one empty field
\* is written as a pair of quotes
csv_row(cells) ==
    LET fields == [i \in 1..Len(cells) |-> csv_field(cells[i])]
    IN  IF Len(fields) = 1 /\ fields[1] = <<>> THEN <<"\"", "\"", "\n">>
        ELSE JoinStr(<<",">>, fields) \o <<"\n">>

\* DictWriter(output, fieldnames).writeheader() and .writerows(rows)
DictWriterText(fieldnames, rows) ==
    csv_row([i \in 1..Len(fieldnames) |-> PyStr(fieldnames[i])])
        \o Concat([r \in 1..Len(rows) |->
               csv_row([i \in 1..Len(fieldnames) |->
                   IF HasKey(rows[r], fieldnames[i])
                   THEN GetItem(rows[r], fieldnames[i]) ELSE PyStr(<<>>)])])

(***************************************************************************)
(* formatters.py: the three formatters.                                    *)
(***************************************************************************)
\* the extraction with the `last` branch tested before the `results` branch
csv_records_last_first(d) ==
    IF IsDict(d) /\ HasKey(d, s_last)
    THEN (IF IsDict(GetItem(d, s_last)) THEN <<GetItem(d, s_last)>> ELSE <<d>>)
    ELSE IF IsDict(d) /\ HasKey(d, s_results)
    THEN LET results_value == GetItem(d, s_results)
         IN  IF IsList(results_value) THEN results_value.v
             ELSE <<results_value>>
    ELSE IF IsList(d) THEN d.v
    ELSE <<d>>

\* json_to_csv_filtered, "Extract records"
csv_records(d) ==
    IF IsDict(d) /\ HasKey(d, s_results)
    THEN LET results_value == GetItem(d, s_results)
         IN  IF IsList(results_value) THEN results_value.v
             ELSE IF IsDict(results_value) THEN <<results_value>>
             ELSE <<results_value>>
    ELSE IF IsDict(d) /\ HasKey(d, s_last)
    THEN (IF IsDict(GetItem(d, s_last)) THEN <<GetItem(d, s_last)>> ELSE <<d>>)
    ELSE IF IsList(d) THEN d.v
    ELSE <<d>>

\* json_to_csv_filtered, "Apply field filtering"
csv_filter(flattened, fields, exclude_fields) ==
    IF Truthy(fields)
    THEN [i \in 1..Len(flattened) |-> KeepKeys(flattened[i], fields)]
    ELSE IF Truthy(exclude_fields)
    THEN [i \in 1..Len(flattened) |-> DropKeys(flattened[i], exclude_fields)]
    ELSE flattened

\* the keys of the first row alone
all_keys_first_row(rows) == IF rows = <<>> THEN <<>> ELSE DictKeys(rows[1])

RECURSIVE all_keys(_)
\* the keys of the rows in order of first appearance
all_keys(rows) ==
    IF rows = <<>> THEN <<>>
    ELSE LET seen == all_keys(SubSeq(rows, 1, Len(rows) - 1))
         IN  seen \o SelectSeq(DictKeys(rows[Len(rows)]),
                               LAMBDA k : k \notin Range(seen))

\* the rows json_to_csv_filtered hands to the writer
csv_rows(d, fields, exclude_fields) ==
    csv_filter(flatten_records(csv_records(d)), fields, exclude_fields)

json_to_csv_filtered(json_input, fields, exclude_fields) ==
    LET d == IF IsStr(json_input) THEN json_loads(json_input) ELSE json_input
        flattened == csv_rows(d, fields, exclude_fields)
    IN  IF IsRaise(d) THEN PyStr(<<>>)
        ELSE IF flattened = <<>> THEN PyStr(<<>>)
        ELSE PyStr(DictWriterText(all_keys(flattened), flattened))

\* json_to_compact, "Extract single record"
compact_record(d) ==
    IF IsDict(d) /\ HasKey(d, s_results)
    THEN LET results == GetItem(d, s_results)
         IN  IF IsList(results)
             THEN (IF Truthy(results) THEN results.v[1] ELSE PyDict(<<>>))
             ELSE results
    ELSE IF IsDict(d) /\ HasKey(d, s_last)
    THEN (IF IsDict(GetItem(d, s_last)) THEN GetItem(d, s_last) ELSE PyDict(<<>>))
    ELSE IF IsList(d) THEN (IF Truthy(d) THEN d.v[1] ELSE PyDict(<<>>))
    ELSE d

\* the mapping json_to_compact serializes
compact_flattened(d, fields) ==
    LET flattened == flatten_record(compact_record(d))
    IN  IF Truthy(fields) THEN KeepKeys(flattened, fields) ELSE flattened

json_to_compact(json_input, fields) ==
    LET d == IF IsStr(json_input) THEN json_loads(json_input) ELSE json_input
    IN  IF IsRaise(d) THEN PyStr(<<"{", "}">>)
        ELSE PyStr(json_dumps(compact_flattened(d, fields), FALSE, 0))

\* json_to_json_filtered, the extraction of the records
json_records(d) ==
    IF IsDict(d) /\ HasKey(d, s_results)
    THEN LET results_value == GetItem(d, s_results)
         IN  IF IsList(results_value) THEN results_value.v
             ELSE IF IsDict(results_value) THEN <<results_value>>
             ELSE <<results_value>>
    ELSE IF IsDict(d) /\ HasKey(d, s_last)
    THEN (IF IsDict(GetItem(d, s_last)) THEN <<GetItem(d, s_last)>> ELSE <<d>>)
    ELSE IF IsList(d) THEN d.v
    ELSE <<d>>

\* the list json_to_json_filtered serializes, or the AttributeError of
\* record.items() on a record that is no dict
json_rows(d, fields, preserve_structure) ==
    LET records == IF preserve_structure THEN json_records(d)
                   ELSE flatten_records(json_records(d))
    IN  IF ~Truthy(fields) THEN PyList(records)
        ELSE IF \E i \in 1..Len(records) : ~IsDict(records[i])
        THEN Raise("AttributeError", <<>>)
        ELSE PyList([i \in 1..Len(records) |-> KeepKeys(records[i], fields)])

json_to_json_filtered(json_input, fields, preserve_structure) ==
    LET d == IF IsStr(json_input) THEN json_loads(json_input) ELSE json_input
        records == json_rows(d, fields, preserve_structure)
    IN  IF IsRaise(d) THEN PyStr(<<"[", "]">>)
        ELSE IF IsRaise(records) THEN records
        ELSE PyStr(json_dumps(records, TRUE, 0))

(***************************************************************************)
(* filters.py: the orchestrator.                                           *)
(***************************************************************************)
\* apply_filters, "Parse JSON if it's a string" and "Apply aggregation if
\* specified": the value handed to the formatter, or what was raised
filters_parsed_data(d, opts) ==
    LET parsed_data == IF IsStr(d) THEN json_loads(d) ELSE d
    IN  IF IsRaise(parsed_data) THEN parsed_data
        ELSE IF Truthy(opts.aggregate)
        THEN _apply_aggregation(parsed_data, opts.aggregate)
        ELSE parsed_data

apply_filters(d, opts) ==
    LET parsed_data == filters_parsed_data(d, opts)
    IN  IF IsRaise(parsed_data) THEN parsed_data
        ELSE IF opts.format = PyStr(s_csv)
        THEN json_to_csv_filtered(parsed_data, opts.fields, opts.exclude_fields)
        ELSE IF opts.format = PyStr(s_json)
        THEN json_to_json_filtered(parsed_data, opts.fields, FALSE)
        ELSE IF opts.format = PyStr(s_compact)
        THEN json_to_compact(parsed_data, opts.fields)
        ELSE Raise("ValueError", <<"U","n","s","u","p","p","o","r","t","e","d"," ","f","o","r","m","a","t",":"," ">> \o str(opts.format).v)

(***************************************************************************)
(* Local variables of a formatter call: the records it extracted and the   *)
(* flattened, filtered mappings it hands to the serializer.                *)
(***************************************************************************)
NoLocals == [none |-> TRUE]

CsvLocals(json_input, fields, exclude_fields) ==
    LET d == IF IsStr(json_input) THEN json_loads(json_input) ELSE json_input
    IN  IF IsRaise(d) THEN NoLocals
        ELSE [records |-> csv_records(d),
              flattened |-> csv_rows(d, fields, exclude_fields)]

JsonLocals(json_input, fields, preserve_structure) ==
    LET d == IF IsStr(json_input) THEN json_loads(json_input) ELSE json_input
        rows == json_rows(d, fields, preserve_structure)
    IN  IF IsRaise(d) \/ IsRaise(rows) THEN NoLocals
        ELSE [records |-> json_records(d), flattened |-> rows.v]

CompactLocals(json_input, fields) ==
    LET d == IF IsStr(json_input) THEN json_loads(json_input) ELSE json_input
    IN  IF IsRaise(d) THEN NoLocals
        ELSE [record |-> compact_record(d),
              flattened |-> <<compact_flattened(d, fields)>>]

FiltersLocals(d, opts) ==
    LET parsed_data == filters_parsed_data(d, opts)
    IN  IF IsRaise(parsed_data) THEN NoLocals
        ELSE IF opts.format = PyStr(s_csv)
        THEN CsvLocals(parsed_data, opts.fields, opts.exclude_fields)
        ELSE IF opts.format = PyStr(s_json)
        THEN JsonLocals(parsed_data, opts.fields, FALSE)
        ELSE IF opts.format = PyStr(s_compact)
        THEN CompactLocals(parsed_data, opts.fields)
        ELSE NoLocals

(***************************************************************************)
(* The bounded sets the arguments of the calls are drawn from.             *)
(***************************************************************************)
SpecAlphabet == {"a", "b", ",", " "}

SeqsUpTo(S, n) == UNION {[1..k -> S] : k \in 0..n}

\* names tried after the "preset:" prefix: every registered one and some others
PresetNameSamples ==
    Range(DictKeys(FIELD_PRESETS))
        \cup {<<>>, <<"a">>, <<"p","r","i","c","e"," ">>, <<"P","r","i","c","e">>, <<"p","r","i","c","e",",","a">>}

FieldSpecs ==
    {None}
        \cup {PyStr(s) : s \in SeqsUpTo(SpecAlphabet, MaxSpecLen)}
        \cup {PyStr(s_preset_prefix \o n) : n \in PresetNameSamples}
        \cup {PyStr(<<" ">> \o s_preset_prefix \o <<"p","r","i","c","e">>),
              PyStr(<<"p","r","e","s","e","t">>),
              PyStr(<<"t","i","c","k","e","r",","," ","c","l","o","s","e"," ">>)}

FormatSpecs ==
    {PyStr(s_csv), PyStr(s_json), PyStr(s_compact),
     PyStr(<<"x","m","l">>), PyStr(<<>>), PyStr(<<"C","S","V">>)}

AggregateSpecs ==
    {None, PyStr(<<>>), PyStr(s_first), PyStr(s_last),
     PyStr(<<"a","v","e","r","a","g","e">>), PyStr(<<"l","a","s","t"," ">>)}

k_a == <<"a">>
k_b == <<"b">>
k_a_b == <<"a", "_", "b">>
k_n == <<"n">>
k_empty == <<>>

D1(k, v) == PyDict(<< <<k, v>> >>)
D2(k1, v1, k2, v2) == PyDict(<< <<k1, v1>>, <<k2, v2>> >>)

\* the key/value pairs the records are built from: scalars, lists (one of them
\* holding a dict), nested dicts, a key that a nested path can collide with,
\* and the empty string as a key, which JSON allows
RecordPairs ==
    {<<k_a, v>> : v \in {PyInt(1), PyStr(<<"x">>), None,
                         PyList(<<>>),
                         PyList(<<PyInt(1), D1(k_b, PyInt(1))>>),
                         PyDict(<<>>),
                         D1(k_b, PyInt(3)),
                         D1(k_b, D1(k_a, PyInt(4))),
                         D1(k_b, PyList(<<PyInt(1)>>))}}
        \cup {<<k_a_b, PyInt(9)>>, <<k_b, PyInt(2)>>, <<k_b, D1(k_a, PyStr(<<"y">>))>>,
              <<k_empty, D1(k_a, PyInt(5))>>}

Records ==
    {PyDict(s) : s \in {q \in SeqsUpTo(RecordPairs, MaxKeys) :
                           \A i, j \in 1..Len(q) : i # j => q[i][1] # q[j][1]}}

\* the records of the multi-record envelopes; the last one is no dict
EnvRecords == {D1(k_a, PyInt(1)), D2(k_a, D1(k_b, PyInt(3)), k_b, PyInt(2)), PyInt(7)}

RecordLists == {PyList(s) : s \in SeqsUpTo(EnvRecords, MaxRecords)}

Scalars == {None, PyInt(0), PyInt(7), PyBool(TRUE), PyStr(<<"5">>), PyStr(<<"x", "y">>)}

ResultsValues ==
    RecordLists
        \cup {PyDict(<<>>), D1(k_a, PyInt(1)), PyStr(<<>>)}
        \cup Scalars

ResultsEnvelopes ==
    {D1(s_results, rv) : rv \in ResultsValues}
        \cup {D2(k_n, PyInt(1), s_results, rv) : rv \in ResultsValues}
        \cup {D2(s_results, rv, s_last, D1(k_b, PyInt(2))) : rv \in ResultsValues}

LastEnvelopes ==
    LET lasts == {D1(k_a, PyInt(1)), PyDict(<<>>), PyInt(5), None,
                  PyList(<<D1(k_a, PyInt(1))>>), PyStr(<<"x">>)}
    IN  {D1(s_last, x) : x \in lasts} \cup {D2(s_last, x, k_n, PyInt(1)) : x \in lasts}

\* every parsed JSON value the calls are tried on
ParsedValues == ResultsEnvelopes \cup LastEnvelopes \cup RecordLists \cup Records \cup Scalars

Text(v) == [t |-> "text", valid |-> TRUE, value |-> v]
BadText == [t |-> "text", valid |-> FALSE, value |-> None]

\* the same responses as JSON text, and a text that is no JSON
TextValues ==
    {Text(v) : v \in {D1(s_results, rv) : rv \in ResultsValues}
                        \cup LastEnvelopes \cup RecordLists \cup Scalars}
        \cup {BadText}

\* a top-level Python str is always JSON text
Responses == (ParsedValues \ {x \in Scalars : x.t = "str"}) \cup TextValues

\* field lists as parse_filter_params builds them
FieldLists ==
    {parse_filter_params(s, PyStr(s_csv), None).fields :
        s \in {None, PyStr(<<",">>), PyStr(<<"a">>), PyStr(<<"b",","," ","a","_","b">>),
               PyStr(s_value)}}

ExcludeLists == {None, PyList(<<PyStr(k_a)>>), PyList(<<PyStr(k_a_b), PyStr(s_value)>>)}

\* the options of a tool call: parsed ones, and ones built as FilterOptions(...)
OptionValues ==
    {FilterOptions(f, e, o, a) :
        f \in FieldLists, e \in ExcludeLists,
        o \in {PyStr(s_csv), PyStr(s_json), PyStr(s_compact), PyStr(<<"x","m","l">>)},
        a \in {None, PyStr(s_first), PyStr(s_last), PyStr(<<"a","v","e","r","a","g","e">>)}}

(***************************************************************************)
(* entrypoint_railway.py: the ASGI application that answers the health     *)
(* paths and /api/market_query itself and hands every other scope to the   *)
(* MCP application.  One request is one run of the coroutine `app`; a step *)
(* is the code up to and including the next await.  The bytes of a body    *)
(* are a sequence of one-character strings, like a str.                    *)
(***************************************************************************)
LowerChars == <<"a", "b", "c", "d", "e", "f", "g", "h", "i", "j", "k", "l", "m", "n", "o", "p", "q", "r", "s", "t", "u", "v", "w", "x", "y", "z">>
UpperChars == <<"A", "B", "C", "D", "E", "F", "G", "H", "I", "J", "K", "L", "M", "N", "O", "P", "Q", "R", "S", "T", "U", "V", "W", "X", "Y", "Z">>

\* s.upper() and s.lower()
upper(s) ==
    [i \in 1..Len(s) |->
        IF \E k \in 1..26 : LowerChars[k] = s[i]
        THEN UpperChars[CHOOSE k \in 1..26 : LowerChars[k] = s[i]] ELSE s[i]]

lower(s) ==
    [i \in 1..Len(s) |->
        IF \E k \in 1..26 : UpperChars[k] = s[i]
        THEN LowerChars[CHOOSE k \in 1..26 : UpperChars[k] = s[i]] ELSE s[i]]

s_provider == <<"p", "r", "o", "v", "i", "d", "e", "r">>
s_operation == <<"o", "p", "e", "r", "a", "t", "i", "o", "n">>
s_params == <<"p", "a", "r", "a", "m", "s">>
s_ok == <<"o", "k">>
s_error == <<"e", "r", "r", "o", "r">>
s_data == <<"d", "a", "t", "a">>
s_status == <<"s", "t", "a", "t", "u", "s">>

\* the request bodies tried: no body, texts that are no JSON, JSON that is
\* no object, and objects with and without the required fields
body_empty == <<>>
body_brace == <<"{">>
body_list == <<"[", "1", "]">>
body_null == <<"n", "u", "l", "l">>
body_provider_only == <<"{", "\"", "p", "r", "o", "v", "i", "d", "e", "r", "\"", ":", "\"", "p", "\"", "}">>
body_complete == <<"{", "\"", "p", "r", "o", "v", "i", "d", "e", "r", "\"", ":", "\"", "p", "\"", ",", "\"", "o", "p", "e", "r", "a", "t", "i", "o", "n", "\"", ":", "\"", "o", "\"", "}">>
body_blank_provider == <<"{", "\"", "p", "r", "o", "v", "i", "d", "e", "r", "\"", ":", "\"", " ", "\"", ",", "\"", "o", "p", "e", "r", "a", "t", "i", "o", "n", "\"", ":", "\"", "o", "\"", "}">>
body_number_provider == <<"{", "\"", "p", "r", "o", "v", "i", "d", "e", "r", "\"", ":", "1", ",", "\"", "o", "p", "e", "r", "a", "t", "i", "o", "n", "\"", ":", "\"", "o", "\"", "}">>
\* a byte that is no UTF-8, written as one element
body_not_utf8 == <<"\\xff">>

Bodies ==
    {body_empty, body_brace, body_list, body_null, body_provider_only,
     body_complete, body_blank_provider, body_number_provider, body_not_utf8}

\* raw.decode("utf-8")
decode(raw) ==
    IF \E i \in 1..Len(raw) : raw[i] = "\\xff"
    THEN Raise("UnicodeDecodeError", <<>>) ELSE PyStr(raw)

\* json.loads of the text of a request body: the documents above as the
\* values they denote, any other text as json_loads reads it
request_json_loads(text) ==
    CASE text.v = <<"{", "}">> -> PyDict(<<>>)
      [] text.v = body_list -> PyList(<<PyInt(1)>>)
      [] text.v = body_provider_only -> D1(s_provider, PyStr(<<"p">>))
      [] text.v = body_complete ->
            D2(s_provider, PyStr(<<"p">>), s_operation, PyStr(<<"o">>))
      [] text.v = body_blank_provider ->
            D2(s_provider, PyStr(<<" ">>), s_operation, PyStr(<<"o">>))
      [] text.v = body_number_provider ->
            D2(s_provider, PyInt(1), s_operation, PyStr(<<"o">>))
      [] OTHER -> json_loads(text)

RECURSIVE json_dumps_default(_)
\* json.dumps(x) with the default separators
json_dumps_default(x) ==
    CASE x.t = "NoneType" -> <<"n", "u", "l", "l">>
      [] x.t = "bool" -> (IF x.v THEN <<"t", "r", "u", "e">> ELSE <<"f", "a", "l", "s", "e">>)
      [] x.t = "int" -> IntChars(x.v)
      [] x.t = "str" -> <<"\"">> \o x.v \o <<"\"">>
      [] x.t = "list" ->
            <<"[">> \o JoinStr(<<",", " ">>,
                         [i \in 1..Len(x.v) |-> json_dumps_default(x.v[i])]) \o <<"]">>
      [] x.t = "dict" ->
            <<"{">> \o JoinStr(<<",", " ">>,
                         [i \in 1..Len(x.v) |->
                             <<"\"">> \o x.v[i][1] \o <<"\"">> \o <<":", " ">>
                                 \o json_dumps_default(x.v[i][2])]) \o <<"}">>

\* json_response(status_code, payload): the status and the body; the headers
\* are the content type and the length of the body
json_response(status_code, payload) ==
    LET body == json_dumps_default(payload)
    IN  [status |-> status_code, content_length |-> Len(body), body |-> body]

NoResponse == [status |-> 0, content_length |-> 0, body |-> <<>>]

\* x or default
Or(x, default) == IF Truthy(x) THEN x ELSE default

\* (payload.get(key) or "").strip(), the AttributeError of a payload without
\* get or of a value without strip included
stripped_field(payload, key) ==
    IF ~IsDict(payload) THEN Raise("AttributeError", <<>>)
    ELSE LET value == Or(DictGet(payload, key), PyStr(<<>>))
         IN  IF IsStr(value) THEN PyStr(strip(value.v))
             ELSE Raise("AttributeError", <<>>)

\* the responses of the branches of app
HealthResponse == json_response(200, D1(s_status, PyStr(s_ok)))

MethodNotAllowedResponse ==
    json_response(405, D2(s_ok, PyBool(FALSE),
                          s_error, PyStr(<<"M", "e", "t", "h", "o", "d", " ", "n", "o", "t", " ", "a", "l", "l", "o", "w", "e", "d", ".", " ", "U", "s", "e", " ", "P", "O", "S", "T", ".">>)))

InvalidJsonResponse ==
    json_response(400, D2(s_ok, PyBool(FALSE), s_error, PyStr(<<"I", "n", "v", "a", "l", "i", "d", " ", "J", "S", "O", "N", " ", "b", "o", "d", "y">>)))

MissingFieldsResponse ==
    json_response(400, D2(s_ok, PyBool(FALSE),
                          s_error, PyStr(<<"M", "i", "s", "s", "i", "n", "g", " ", "r", "e", "q", "u", "i", "r", "e", "d", " ", "f", "i", "e", "l", "d", "s", ":", " ", "p", "r", "o", "v", "i", "d", "e", "r", ",", " ", "o", "p", "e", "r", "a", "t", "i", "o", "n">>)))

\* the response to what massive_query returned
QueryResponse(provider, operation, data) ==
    IF IsStr(data) /\ startswith(lower(data.v), s_error)
    THEN json_response(400, PyDict(<< <<s_ok, PyBool(FALSE)>>, <<s_provider, provider>>,
                                      <<s_operation, operation>>, <<s_error, data>> >>))
    ELSE json_response(200, PyDict(<< <<s_ok, PyBool(TRUE)>>, <<s_provider, provider>>,
                                      <<s_operation, operation>>, <<s_data, str(data)>> >>))

\* the response of the except branch
ServerErrorResponse(e) ==
    json_response(500, D2(s_ok, PyBool(FALSE),
                          s_error, PyStr(<<"S", "e", "r", "v", "e", "r", " ", "e", "r", "r", "o", "r", ":", " ">> \o e.msg)))

\* what massive_query may do: return an error string of the router, return
\* data as a string or as an object, or raise
QueryOutcomes ==
    {PyStr(<<"E", "r", "r", "o", "r", ":", " ", "x">>), PyStr(<<"E", "R", "R", "O", "R">>), PyStr(<<"o", "k">>), D1(k_a, PyInt(1)),
     Raise("RuntimeError", <<"b", "o", "o", "m">>)}

\* the messages receive delivers
RequestMessage(has_body, body, has_more_body, more_body) ==
    [type |-> "http.request", has_body |-> has_body, body |-> body,
     has_more_body |-> has_more_body, more_body |-> more_body]

Disconnect ==
    [type |-> "http.disconnect", has_body |-> FALSE, body |-> <<>>,
     has_more_body |-> FALSE, more_body |-> FALSE]

\* message.get("body", b"") and message.get("more_body", False)
message_body(m) == IF m.has_body THEN m.body ELSE <<>>
message_more_body(m) == IF m.has_more_body THEN m.more_body ELSE FALSE

RECURSIVE Chunkings(_, _)
\* the ways to cut a body into at least one and at most n chunks
Chunkings(body, n) ==
    IF n = 1 THEN {<<body>>}
    ELSE {<<body>>}
           \cup UNION {{<<SubSeq(body, 1, k)>> \o rest :
                            rest \in Chunkings(SubSeq(body, k + 1, Len(body)), n - 1)}
                          : k \in 0..Len(body)}

\* the streams of messages of a request with this body: the chunks, the last
\* of them final (`more_body` false or absent), or none of them final and
\* the client disconnected after them.  A chunk that is empty may come
\* without `body`.
Streams(body) ==
    LET chunk(c, more) ==
            {RequestMessage(TRUE, c, TRUE, more)}
                \cup (IF more THEN {} ELSE {RequestMessage(TRUE, c, FALSE, FALSE)})
                \cup (IF c = <<>> THEN {RequestMessage(FALSE, <<>>, TRUE, more)} ELSE {})
        complete(cs) ==
            {s \in [1..Len(cs) -> UNION {chunk(cs[i], TRUE) \cup chunk(cs[i], FALSE)
                                            : i \in 1..Len(cs)}] :
                \A i \in 1..Len(cs) : s[i] \in chunk(cs[i], i < Len(cs))}
        cut(cs) ==
            {s \in [1..Len(cs) -> UNION {chunk(cs[i], TRUE) : i \in 1..Len(cs)}] :
                \A i \in 1..Len(cs) : s[i] \in chunk(cs[i], TRUE)}
    IN  UNION {complete(cs) \cup {s \o <<Disconnect>> : s \in cut(cs)}
                  : cs \in Chunkings(body, MaxChunks)}
           \cup {<<Disconnect>>}

\* the scopes tried; `path` and `method` may be absent
Scope(type, has_path, path, method) ==
    [type |-> type, has_path |-> has_path, path |-> path, method |-> method]

Paths == {"/", "/healthz", "/health", "/api/market_query", "/mcp", "/health/"}

Methods == {None, PyStr(<<"G", "E", "T">>), PyStr(<<"P", "O", "S", "T">>), PyStr(<<"p", "o", "s", "t">>), PyStr(<<>>)}

Scopes ==
    {Scope("http", TRUE, p, m) : p \in Paths, m \in Methods}
        \cup {Scope("http", FALSE, "", PyStr(<<"G", "E", "T">>)),
              Scope("websocket", TRUE, "/", None),
              Scope("lifespan", FALSE, "", None)}

\* scope.get("path", "") and (scope.get("method") or "GET").upper()
scope_path(s) == IF s.has_path THEN s.path ELSE ""
scope_method(s) == upper(Or(s.method, PyStr(<<"G", "E", "T">>)).v)

NoScope == Scope("none", FALSE, "", None)

\* the local variables of app
NoFrame ==
    [raw |-> <<>>, payload |-> None, provider |-> None, operation |-> None,
     params |-> None, response |-> NoResponse, in_try |-> FALSE]

\* a message handed to send
Sent(type, response) ==
    [type |-> type,
     status |-> IF type = "http.response.start" THEN response.status ELSE 0,
     content_length |-> IF type = "http.response.start" THEN response.content_length ELSE 0,
     body |-> IF type = "http.response.body" THEN response.body ELSE <<>>]

\* no request yet
WrappedIdle ==
    /\ scope = NoScope
    /\ stream = <<>>
    /\ delivered = 0
    /\ pc = "idle"
    /\ message = Disconnect
    /\ chunks = <<>>
    /\ frame = NoFrame
    /\ sent = <<>>
    /\ handed = 0
    /\ raised = None

(***************************************************************************)
(* The state machine: one call of one function of the pipeline, with       *)
(* _apply_aggregation applied again to its own result.                     *)
(***************************************************************************)
Init ==
    /\ call = "none"
    /\ arg = [none |-> TRUE]
    /\ ret = Pending
    /\ locals = NoLocals
    /\ nagg = 0
    /\ WrappedIdle

CallParseFilterParams ==
    /\ call = "none"
    /\ \E f \in FieldSpecs, o \in FormatSpecs, a \in AggregateSpecs :
          /\ arg' = [fields |-> f, output_format |-> o, aggregate |-> a]
          /\ ret' = parse_filter_params(f, o, a)
    /\ call' = "parse_filter_params"
    /\ locals' = NoLocals
    /\ nagg' = 0
    /\ UNCHANGED wrapped_vars

CallApplyFilters ==
    /\ call = "none"
    /\ \E d \in Responses, opts \in OptionValues :
          /\ arg' = [data |-> d, options |-> opts]
          /\ ret' = apply_filters(d, opts)
          /\ locals' = FiltersLocals(d, opts)
    /\ call' = "apply_filters"
    /\ nagg' = 0
    /\ UNCHANGED wrapped_vars

CallApplyAggregation ==
    /\ call = "none"
    /\ \E d \in ParsedValues,
          m \in {PyStr(s_first), PyStr(s_last), PyStr(<<"a","v","e","r","a","g","e">>)} :
          /\ arg' = [data |-> d, method |-> m]
          /\ ret' = _apply_aggregation(d, m)
    /\ call' = "_apply_aggregation"
    /\ locals' = NoLocals
    /\ nagg' = 1
    /\ UNCHANGED wrapped_vars

\* the result of an aggregation aggregated again with the same method
CallApplyAggregationAgain ==
    /\ call = "_apply_aggregation"
    /\ ~IsRaise(ret)
    /\ nagg < MaxAggs
    /\ arg' = [data |-> ret, method |-> arg.method]
    /\ ret' = _apply_aggregation(ret, arg.method)
    /\ locals' = [previous |-> arg.data]
    /\ nagg' = nagg + 1
    /\ UNCHANGED call
    /\ UNCHANGED wrapped_vars

CallJsonToCsvFiltered ==
    /\ call = "none"
    /\ \E d \in Responses, f \in FieldLists, e \in ExcludeLists :
          /\ arg' = [json_input |-> d, fields |-> f, exclude_fields |-> e]
          /\ ret' = json_to_csv_filtered(d, f, e)
          /\ locals' = CsvLocals(d, f, e)
    /\ call' = "json_to_csv_filtered"
    /\ nagg' = 0
    /\ UNCHANGED wrapped_vars

CallJsonToJsonFiltered ==
    /\ call = "none"
    /\ \E d \in Responses, f \in FieldLists, p \in BOOLEAN :
          /\ arg' = [json_input |-> d, fields |-> f, preserve_structure |-> p]
          /\ ret' = json_to_json_filtered(d, f, p)
          /\ locals' = JsonLocals(d, f, p)
    /\ call' = "json_to_json_filtered"
    /\ nagg' = 0
    /\ UNCHANGED wrapped_vars

CallJsonToCompact ==
    /\ call = "none"
    /\ \E d \in Responses, f \in FieldLists :
          /\ arg' = [json_input |-> d, fields |-> f]
          /\ ret' = json_to_compact(d, f)
          /\ locals' = CompactLocals(d, f)
    /\ call' = "json_to_compact"
    /\ nagg' = 0
    /\ UNCHANGED wrapped_vars

CallFlattenDict ==
    /\ call = "none"
    /\ \E d \in Records, parent_key \in {<<>>, <<"p">>} :
          /\ arg' = [d |-> d, parent_key |-> parent_key, sep |-> <<"_">>]
          /\ ret' = _flatten_dict(d, parent_key, <<"_">>)
    /\ call' = "_flatten_dict"
    /\ locals' = NoLocals
    /\ nagg' = 0
    /\ UNCHANGED wrapped_vars

Next ==
    \/ CallParseFilterParams
    \/ CallApplyFilters
    \/ CallApplyAggregation
    \/ CallApplyAggregationAgain
    \/ CallJsonToCsvFiltered
    \/ CallJsonToJsonFiltered
    \/ CallJsonToCompact
    \/ CallFlattenDict

Spec == Init /\ [][Next]_vars

(***************************************************************************)
(* The state machine of the ASGI application: one request.                 *)
(***************************************************************************)
\* a server calls app(scope, receive, send); app runs to its first await
App ==
    /\ pc = "idle"
    /\ \E sc \in Scopes, body \in Bodies :
          \E st \in Streams(body) :
              /\ scope' = sc
              /\ stream' = st
              /\ IF sc.type # "http" THEN pc' = "mcp_asgi_app" /\ frame' = NoFrame
                 ELSE IF scope_path(sc) \in {"/", "/healthz", "/health"}
                 THEN /\ pc' = "send_start"
                      /\ frame' = [NoFrame EXCEPT !.response = HealthResponse]
                 ELSE IF scope_path(sc) = "/api/market_query"
                 THEN IF scope_method(sc) # <<"P", "O", "S", "T">>
                      THEN /\ pc' = "send_start"
                           /\ frame' = [NoFrame EXCEPT !.response = MethodNotAllowedResponse]
                      ELSE pc' = "read_body_receive" /\ frame' = NoFrame
                 ELSE pc' = "mcp_asgi_app" /\ frame' = NoFrame
    /\ UNCHANGED <<delivered, message, chunks, sent, handed, raised>>
    /\ UNCHANGED <<call, arg, ret, locals, nagg>>

\* read_body: message = await receive().  Once the client has disconnected
\* receive delivers http.disconnect every time it is called.
ReadBodyReceive ==
    /\ pc = "read_body_receive"
    /\ delivered < Len(stream)
    /\ message' = stream[delivered + 1]
    /\ delivered' = IF stream[delivered + 1].type = "http.disconnect" THEN delivered
                    ELSE delivered + 1
    /\ pc' = "read_body_message"
    /\ UNCHANGED <<scope, stream, chunks, frame, sent, handed, raised>>
    /\ UNCHANGED <<call, arg, ret, locals, nagg>>

\* read_body: the body of the loop, and after the loop the return of the
\* joined chunks to app
ReadBodyMessage ==
    /\ pc = "read_body_message"
    /\ IF message.type # "http.request"
       THEN pc' = "read_body_receive" /\ UNCHANGED <<chunks, frame>>
       ELSE /\ chunks' = Append(chunks, message_body(message))
            /\ IF ~message_more_body(message)
               THEN /\ frame' = [frame EXCEPT !.raw = Concat(chunks')]
                    /\ pc' = "json_loads"
               ELSE pc' = "read_body_receive" /\ UNCHANGED frame
    /\ UNCHANGED <<scope, stream, delivered, message, sent, handed, raised>>
    /\ UNCHANGED <<call, arg, ret, locals, nagg>>

\* app from the parsing of the body to the call of massive_query: a body
\* that cannot be decoded or parsed and missing fields are answered with 400,
\* an exception outside the try leaves app
ParseBody ==
    /\ pc = "json_loads"
    /\ LET text == IF frame.raw # <<>> THEN decode(frame.raw) ELSE PyStr(<<"{", "}">>)
           payload == IF IsRaise(text) THEN text ELSE request_json_loads(text)
           provider == stripped_field(payload, s_provider)
           operation == stripped_field(payload, s_operation)
           params == Or(DictGet(payload, s_params), PyDict(<<>>))
       IN  IF IsRaise(payload)
           THEN /\ pc' = "send_start"
                /\ frame' = [frame EXCEPT !.response = InvalidJsonResponse]
                /\ UNCHANGED raised
           ELSE IF IsRaise(provider)
           THEN /\ pc' = "raised" /\ raised' = provider
                /\ frame' = [frame EXCEPT !.payload = payload]
           ELSE IF IsRaise(operation)
           THEN /\ pc' = "raised" /\ raised' = operation
                /\ frame' = [frame EXCEPT !.payload = payload, !.provider = provider]
           ELSE IF ~Truthy(provider) \/ ~Truthy(operation)
           THEN /\ pc' = "send_start"
                /\ frame' = [frame EXCEPT !.payload = payload, !.provider = provider,
                                          !.operation = operation, !.params = params,
                                          !.response = MissingFieldsResponse]
                /\ UNCHANGED raised
           ELSE /\ pc' = "massive_query"
                /\ frame' = [frame EXCEPT !.payload = payload, !.provider = provider,
                                          !.operation = operation, !.params = params,
                                          !.in_try = TRUE]
                /\ UNCHANGED raised
    /\ UNCHANGED <<scope, stream, delivered, message, chunks, sent, handed>>
    /\ UNCHANGED <<call, arg, ret, locals, nagg>>

\* app inside the try: massive_query returns or raises
Query ==
    /\ pc = "massive_query"
    /\ \E data \in QueryOutcomes :
          IF IsRaise(data)
          THEN frame' = [frame EXCEPT !.response = ServerErrorResponse(data),
                                      !.in_try = FALSE]
          ELSE frame' = [frame EXCEPT
                            !.response = QueryResponse(frame.provider, frame.operation, data)]
    /\ pc' = "send_start"
    /\ UNCHANGED <<scope, stream, delivered, message, chunks, sent, handed, raised>>
    /\ UNCHANGED <<call, arg, ret, locals, nagg>>

\* what follows a send that raised: inside the try the except branch, which
\* builds the 500 response and sends it; elsewhere the exception leaves app
AfterSendRaised(e) ==
    IF frame.in_try
    THEN /\ frame' = [frame EXCEPT !.response = ServerErrorResponse(e), !.in_try = FALSE]
         /\ pc' = "send_start"
         /\ UNCHANGED raised
    ELSE /\ pc' = "raised"
         /\ raised' = e
         /\ UNCHANGED frame

\* the exceptions a send may raise
SendErrors == {Raise("OSError", <<"c", "l", "o", "s", "e", "d">>)}

\* await send({"type": "http.response.start", ...})
SendStart ==
    /\ pc = "send_start"
    /\ sent' = Append(sent, Sent("http.response.start", frame.response))
    /\ \/ pc' = "send_body" /\ UNCHANGED <<frame, raised>>
       \/ \E e \in SendErrors : AfterSendRaised(e)
    /\ UNCHANGED <<scope, stream, delivered, message, chunks, handed>>
    /\ UNCHANGED <<call, arg, ret, locals, nagg>>

\* await send({"type": "http.response.body", ...}) and the return
SendBody ==
    /\ pc = "send_body"
    /\ sent' = Append(sent, Sent("http.response.body", frame.response))
    /\ \/ pc' = "returned" /\ UNCHANGED <<frame, raised>>
       \/ \E e \in SendErrors : AfterSendRaised(e)
    /\ UNCHANGED <<scope, stream, delivered, message, chunks, handed>>
    /\ UNCHANGED <<call, arg, ret, locals, nagg>>

\* await mcp_asgi_app(scope, receive, send)
McpAsgiApp ==
    /\ pc = "mcp_asgi_app"
    /\ handed' = handed + 1
    /\ pc' = "returned"
    /\ UNCHANGED <<scope, stream, delivered, message, chunks, frame, sent, raised>>
    /\ UNCHANGED <<call, arg, ret, locals, nagg>>

NextWrapped ==
    \/ App
    \/ ReadBodyReceive
    \/ ReadBodyMessage
    \/ ParseBody
    \/ Query
    \/ SendStart
    \/ SendBody
    \/ McpAsgiApp

\* the steps of app after the call
Resume ==
    \/ ReadBodyReceive
    \/ ReadBodyMessage
    \/ ParseBody
    \/ Query
    \/ SendStart
    \/ SendBody
    \/ McpAsgiApp

\* the event loop resumes a coroutine that can take a step
SpecWrapped == Init /\ [][NextWrapped]_vars /\ WF_vars(Resume)

(***************************************************************************)
(* Properties of the aggregator.                                           *)
(***************************************************************************)
AggCalled == call = "_apply_aggregation"
FirstOrLast == {PyStr(s_first), PyStr(s_last)}

\* the element the method names, of a non-empty sequence
Selected(seq, method) == IF method = PyStr(s_first) THEN seq[1] ELSE seq[Len(seq)]

\* C1: _apply_aggregation preserves the envelope shape.  With first or last,
\* an envelope whose `results` is a non-empty list comes back with the same
\* top-level keys in the same order, every other key's value kept, and
\* `results` a one-element list of the first (last) record; a non-empty bare
\* list comes back as the one-element list of its first (last) element.  With
\* any method, an empty record list and an object with no `results` key come
\* back unchanged.
C1_AggregationPreservesShape ==
    AggCalled =>
        LET d == arg.data
            m == arg.method
            has_results == IsDict(d) /\ HasKey(d, s_results)
        IN  /\ (m \in FirstOrLast /\ has_results /\ IsList(GetItem(d, s_results))
                    /\ GetItem(d, s_results).v # <<>>)
               => /\ IsDict(ret)
                  /\ DictKeys(ret) = DictKeys(d)
                  /\ \A i \in 1..Len(d.v) :
                        ret.v[i][2] = IF d.v[i][1] = s_results
                                      THEN PyList(<<Selected(GetItem(d, s_results).v, m)>>)
                                      ELSE d.v[i][2]
            /\ (m \in FirstOrLast /\ IsList(d) /\ d.v # <<>>)
               => ret = PyList(<<Selected(d.v, m)>>)
            /\ (\/ has_results /\ GetItem(d, s_results) = PyList(<<>>)
                \/ d = PyList(<<>>)
                \/ IsDict(d) /\ ~HasKey(d, s_results))
               => ret = d

\* witness of C1: `last` applied to an envelope with another top-level key and
\* two records, the last of which differs from the first
C1_Witness ==
    /\ AggCalled /\ nagg = 1
    /\ arg.method = PyStr(s_last)
    /\ IsDict(arg.data) /\ HasKey(arg.data, s_results) /\ HasKey(arg.data, k_n)
    /\ IsList(GetItem(arg.data, s_results))
    /\ Len(GetItem(arg.data, s_results).v) = 2
    /\ GetItem(arg.data, s_results).v[1] # GetItem(arg.data, s_results).v[2]
    /\ ret = DictSet(arg.data, s_results, PyList(<<GetItem(arg.data, s_results).v[2]>>))

\* C2: aggregation is idempotent for a fixed method: aggregating the result
\* of an aggregation again with the same method returns that result.
C2_AggregationIdempotent ==
    (AggCalled /\ nagg >= 2) => ret = arg.data

\* witness of C2: the first application reduced the envelope, the second
\* returned the reduced envelope
C2_Witness ==
    /\ AggCalled /\ nagg = 2
    /\ arg.method \in FirstOrLast
    /\ locals.previous # arg.data
    /\ ret = arg.data

\* C3: aggregation is total.  With first or last, _apply_aggregation returns
\* on every parsed JSON value, and so does apply_filters with a recognized
\* format and options.aggregate set.
C3_AggregationTotal ==
    /\ (AggCalled /\ arg.method \in FirstOrLast) => ~IsRaise(ret)
    /\ (/\ call = "apply_filters"
        /\ ~IsStr(arg.data)
        /\ arg.options.aggregate \in FirstOrLast
        /\ arg.options.format \in {PyStr(s_csv), PyStr(s_json), PyStr(s_compact)})
       => ~IsRaise(ret)

(***************************************************************************)
(* Properties of the option parser.                                        *)
(***************************************************************************)
ParseCalled == call = "parse_filter_params"

\* sub occurs in s
Contains(s, sub) ==
    \E i \in 1..(Len(s) - Len(sub) + 1) : SubSeq(s, i, i + Len(sub) - 1) = sub

RegisteredNames == Range(DictKeys(FIELD_PRESETS))

\* the specifier is `preset:<name>`
IsPresetRef(f) == f # None /\ Len(f.v) >= 7 /\ SubSeq(f.v, 1, 7) = s_preset_prefix
PresetRefName(f) == SubSeq(f.v, 8, Len(f.v))

UnknownPresetCase ==
    IsPresetRef(arg.fields) /\ PresetRefName(arg.fields) \notin RegisteredNames
InvalidFormatCase ==
    arg.output_format \notin {PyStr(s_csv), PyStr(s_json), PyStr(s_compact)}
InvalidAggregateCase ==
    /\ arg.aggregate # None
    /\ arg.aggregate # PyStr(<<>>)
    /\ arg.aggregate \notin FirstOrLast

\* C4: parse_filter_params fails exactly on an unregistered preset, an
\* unrecognized format or a non-empty aggregate other than first and last;
\* the message of the unknown-preset error contains "Unknown preset" and
\* every registered preset name; otherwise the options returned carry a
\* recognized format and an aggregate that is first, last, empty or absent.
C4_ParseFailsExactlyWhen ==
    ParseCalled =>
        /\ IsRaise(ret) <=> (UnknownPresetCase \/ InvalidFormatCase \/ InvalidAggregateCase)
        /\ IsRaise(ret) => ret.exc = "ValueError"
        /\ UnknownPresetCase =>
              /\ Contains(ret.msg, <<"U","n","k","n","o","w","n"," ","p","r","e","s","e","t">>)
              /\ \A n \in RegisteredNames : Contains(ret.msg, n)
        /\ ~IsRaise(ret) =>
              /\ ret.format \in {PyStr(s_csv), PyStr(s_json), PyStr(s_compact)}
              /\ ret.aggregate \in FirstOrLast \cup {None, PyStr(<<>>)}

\* witness of C4: an unregistered preset rejected although format and
\* aggregate are valid
C4_Witness ==
    /\ ParseCalled
    /\ UnknownPresetCase /\ ~InvalidFormatCase /\ ~InvalidAggregateCase
    /\ Len(PresetRefName(arg.fields)) > 0
    /\ IsRaise(ret)

\* the comma-separated tokens of s in order, trimmed, the empty ones dropped:
\* the segments between consecutive commas, each cut to the span from its
\* first to its last character that is no whitespace
TokensOf(s) ==
    LET commas == {i \in 1..Len(s) : s[i] = ","}
        n == Cardinality(commas) + 1
        cut(k) == IF k = 0 THEN 0
                  ELSE IF k = n THEN Len(s) + 1
                  ELSE CHOOSE i \in commas : Cardinality({j \in commas : j < i}) = k - 1
        seg(k) == SubSeq(s, cut(k - 1) + 1, cut(k) - 1)
        trim(x) ==
            LET solid == {i \in 1..Len(x) : x[i] \notin Whitespace}
            IN  IF solid = {} THEN <<>>
                ELSE SubSeq(x, CHOOSE i \in solid : \A j \in solid : i <= j,
                               CHOOSE i \in solid : \A j \in solid : i >= j)
    IN  SelectSeq([k \in 1..n |-> trim(seg(k))], LAMBDA x : x # <<>>)

\* C5: when parse_filter_params returns, the field list is absent for an
\* empty or absent specifier, is the preset's ordered list for `preset:<name>`
\* with a registered name, and for any other specifier is the list of its
\* comma-separated tokens in order, trimmed, with the empty tokens dropped.
C5_FieldListFromSpecifier ==
    (ParseCalled /\ ~IsRaise(ret)) =>
        IF arg.fields = None \/ arg.fields = PyStr(<<>>)
        THEN ret.fields = None
        ELSE IF IsPresetRef(arg.fields)
        THEN \E i \in 1..Len(FIELD_PRESETS.v) :
                /\ FIELD_PRESETS.v[i][1] = PresetRefName(arg.fields)
                /\ ret.fields = FIELD_PRESETS.v[i][2]
        ELSE LET tokens == TokensOf(arg.fields.v)
             IN  ret.fields = PyList([i \in 1..Len(tokens) |-> PyStr(tokens[i])])

\* witness of C5: a specifier whose tokens needed trimming on the right and
\* one of whose tokens was dropped
C5_Witness ==
    /\ ParseCalled /\ ~IsRaise(ret)
    /\ arg.fields = PyStr(<<"a", " ", ",">>)
    /\ ret.fields = PyList(<<PyStr(<<"a">>)>>)

(***************************************************************************)
(* Properties of the formatters.                                           *)
(***************************************************************************)
\* a formatter ran to the point of rendering records: called directly (the
\* JSON one without preserve_structure) or through apply_filters
Rendered ==
    /\ \/ call \in {"json_to_csv_filtered", "json_to_compact", "apply_filters"}
       \/ call = "json_to_json_filtered" /\ ~arg.preserve_structure
    /\ locals # NoLocals

\* the include and the exclude list the call was given
IncludeList == IF call = "apply_filters" THEN arg.options.fields ELSE arg.fields
ExcludeList ==
    IF call = "apply_filters" THEN arg.options.exclude_fields
    ELSE IF call = "json_to_csv_filtered" THEN arg.exclude_fields
    ELSE None

\* the records the call extracted, flattened but not yet filtered
FlattenedUnfiltered ==
    IF "records" \in DOMAIN locals THEN flatten_records(locals.records)
    ELSE <<flatten_record(locals.record)>>

\* C6: field inclusion strictly narrows.  Whenever an include list is given,
\* the empty one too, every key of every rendered record is a member of it,
\* in every format; the kept keys are in the flattened record's own order;
\* and an exclude list given with it changes nothing.
C6_IncludeNarrows ==
    (Rendered /\ IncludeList # None) =>
        \A i \in 1..Len(locals.flattened) :
            /\ \A j \in 1..Len(locals.flattened[i].v) :
                  PyStr(locals.flattened[i].v[j][1]) \in Range(IncludeList.v)
            /\ locals.flattened[i].v =
                  SelectSeq(FlattenedUnfiltered[i].v,
                            LAMBDA kv : PyStr(kv[1]) \in Range(IncludeList.v))

\* C7: with an exclude list and no include list, no excluded key is in any
\* record apply_filters renders, whichever the format.
C7_ExcludeInEveryFormat ==
    (/\ call = "apply_filters"
     /\ locals # NoLocals
     /\ arg.options.fields = None
     /\ arg.options.exclude_fields # None)
    => \A i \in 1..Len(locals.flattened) :
          \A j \in 1..Len(locals.flattened[i].v) :
              PyStr(locals.flattened[i].v[j][1]) \notin Range(arg.options.exclude_fields.v)

RECURSIVE LeafPaths(_)
\* the <<path, value>> pairs of the values of d that are no dict, a path being
\* the keys from the top of d down to the value
LeafPaths(d) ==
    UNION {IF IsDict(d.v[i][2])
           THEN {<< <<d.v[i][1]>> \o lp[1], lp[2] >> : lp \in LeafPaths(d.v[i][2])}
           ELSE {<< <<d.v[i][1]>>, d.v[i][2] >>}
           : i \in 1..Len(d.v)}

\* the keys of a path, after the parent key when one is given, joined with sep
JoinedPath(parent_key, path, sep) ==
    JoinStr(sep, (IF parent_key = <<>> THEN <<>> ELSE <<parent_key>>) \o path)

\* C8: _flatten_dict returns a mapping one level deep: no value is a dict or
\* a list; every key is the path of nested keys of a leaf joined with `_`,
\* and every leaf has its key; a list leaf is replaced by its string form, not
\* recursed into; any other leaf is kept as it is.
C8_FlattenOneLevel ==
    call = "_flatten_dict" =>
        /\ IsDict(ret)
        /\ \A i \in 1..Len(ret.v) : ~IsDict(ret.v[i][2]) /\ ~IsList(ret.v[i][2])
        /\ \A i \in 1..Len(ret.v) :
              \E lp \in LeafPaths(arg.d) :
                  /\ ret.v[i][1] = JoinedPath(arg.parent_key, lp[1], arg.sep)
                  /\ ret.v[i][2] = IF IsList(lp[2]) THEN str(lp[2]) ELSE lp[2]
        /\ \A lp \in LeafPaths(arg.d) :
              HasKey(ret, JoinedPath(arg.parent_key, lp[1], arg.sep))

\* the parsed value a formatter works on
ParsedInput == IF IsStr(arg.json_input) THEN json_loads(arg.json_input) ELSE arg.json_input

ExtractCalled ==
    call \in {"json_to_csv_filtered", "json_to_json_filtered"} /\ locals # NoLocals

\* the five-variant rule with an input that matches none of the variants 1-4,
\* such as an object whose `results` is a scalar, treated per variant 5
FiveVariantRecords(d) ==
    IF IsDict(d) /\ HasKey(d, s_results) /\ IsList(GetItem(d, s_results))
    THEN GetItem(d, s_results).v
    ELSE IF IsDict(d) /\ HasKey(d, s_results) /\ IsDict(GetItem(d, s_results))
    THEN <<GetItem(d, s_results)>>
    ELSE IF IsDict(d) /\ HasKey(d, s_last)
    THEN (IF IsDict(GetItem(d, s_last)) THEN <<GetItem(d, s_last)>> ELSE <<d>>)
    ELSE IF IsList(d) THEN d.v
    ELSE <<d>>

\* C9 as stated: the table and the filtered-JSON formatter derive the record
\* list by the five-variant rule, an object whose `results` is a scalar
\* falling through to the later variants.
C9_FiveVariantRule ==
    ExtractCalled => locals.records = FiveVariantRecords(ParsedInput)

\* the rule with variant 2 covering every `results` value that is no list
ResultsFirstRecords(d) ==
    IF IsDict(d) /\ HasKey(d, s_results)
    THEN (IF IsList(GetItem(d, s_results)) THEN GetItem(d, s_results).v
          ELSE <<GetItem(d, s_results)>>)
    ELSE IF IsDict(d) /\ HasKey(d, s_last)
    THEN (IF IsDict(GetItem(d, s_last)) THEN <<GetItem(d, s_last)>> ELSE <<d>>)
    ELSE IF IsList(d) THEN d.v
    ELSE <<d>>

\* C9, amended: the table and the filtered-JSON formatter derive the record
\* list in this order: (1) `results` holding a list gives that list; (2)
\* `results` holding anything else, a single object or a scalar, gives the
\* one-element list of that value; (3) `last` gives the one-element list of
\* its value if that is an object, else of the whole envelope; (4) a bare
\* list gives that list; (5) anything else gives the one-element list of the
\* input.  `results` takes precedence over `last`.
C9_ResultsFirstRule ==
    ExtractCalled => locals.records = ResultsFirstRecords(ParsedInput)

\* witness of C9: an envelope with both keys, `results` holding a scalar
C9_Witness ==
    /\ ExtractCalled
    /\ IsDict(ParsedInput)
    /\ HasKey(ParsedInput, s_results) /\ HasKey(ParsedInput, s_last)
    /\ GetItem(ParsedInput, s_results) = PyInt(7)
    /\ locals.records = <<PyInt(7)>>

\* C10: every formatter reads an envelope alike: the record json_to_compact
\* renders is the first of the records the other two formatters derive from
\* the same input, the empty object when there is none.
C10_CompactRecordIsFirstRecord ==
    (call = "json_to_compact" /\ locals # NoLocals) =>
        /\ csv_records(ParsedInput) = json_records(ParsedInput)
        /\ locals.record = IF csv_records(ParsedInput) = <<>> THEN PyDict(<<>>)
                           ELSE csv_records(ParsedInput)[1]

(***************************************************************************)
(* Properties of the table rendering.                                      *)
(***************************************************************************)
RECURSIVE CsvRead(_, _, _, _, _, _)
\* the rows of cells a CSV reader gets from the text s, read from position i:
\* a quoted cell may hold commas and doubled quotes, a line without any
\* character is a row without cells
CsvRead(s, i, quoted, started, cell, cells) ==
    IF i > Len(s)
    THEN (IF started THEN << cells \o <<cell>> >> ELSE <<>>)
    ELSE IF quoted
    THEN (IF s[i] = "\""
          THEN (IF i < Len(s) /\ s[i + 1] = "\""
                THEN CsvRead(s, i + 2, TRUE, TRUE, cell \o <<"\"">>, cells)
                ELSE CsvRead(s, i + 1, FALSE, TRUE, cell, cells))
          ELSE CsvRead(s, i + 1, TRUE, TRUE, cell \o <<s[i]>>, cells))
    ELSE IF s[i] = "\"" THEN CsvRead(s, i + 1, TRUE, TRUE, cell, cells)
    ELSE IF s[i] = "," THEN CsvRead(s, i + 1, FALSE, TRUE, <<>>, cells \o <<cell>>)
    ELSE IF s[i] = "\n"
    THEN << (IF started THEN cells \o <<cell>> ELSE <<>>) >>
             \o CsvRead(s, i + 1, FALSE, FALSE, <<>>, <<>>)
    ELSE CsvRead(s, i + 1, FALSE, TRUE, cell \o <<s[i]>>, cells)

\* the table formatter ran to the point of writing the table
TableCalled ==
    /\ \/ call = "json_to_csv_filtered"
       \/ call = "apply_filters" /\ arg.options.format = PyStr(s_csv)
    /\ locals # NoLocals

\* where the key k is first met when the rows are scanned in order
FirstSeen(rows, k) ==
    LET r == CHOOSE r \in 1..Len(rows) :
                 /\ HasKey(rows[r], k)
                 /\ \A q \in 1..(r - 1) : ~HasKey(rows[q], k)
    IN  <<r, CHOOSE j \in 1..Len(rows[r].v) : rows[r].v[j][1] = k>>

\* the text of the cell of a value
CellText(row, k) ==
    IF ~HasKey(row, k) \/ GetItem(row, k) = None THEN <<>>
    ELSE str(GetItem(row, k)).v

\* C11: the table of a non-empty record list has as its header the union of
\* the keys of all filtered records, without a duplicate, in the order in
\* which the keys are first met scanning the records in order; it has one
\* row per record, in record order, with an empty cell for every header key
\* the record lacks.  An empty record list gives the empty string.
C11_TableRendering ==
    TableCalled =>
        LET rows == locals.flattened
            table == CsvRead(ret.v, 1, FALSE, FALSE, <<>>, <<>>)
            header == table[1]
        IN  IF rows = <<>> THEN ret = PyStr(<<>>)
            ELSE /\ Len(table) = 1 + Len(rows)
                 /\ \A i, j \in 1..Len(header) : i # j => header[i] # header[j]
                 /\ Range(header) = UNION {Range(DictKeys(rows[r])) : r \in 1..Len(rows)}
                 /\ \A i, j \in 1..Len(header) :
                       i < j =>
                          LET fi == FirstSeen(rows, header[i])
                              fj == FirstSeen(rows, header[j])
                          IN  fi[1] < fj[1] \/ (fi[1] = fj[1] /\ fi[2] < fj[2])
                 /\ \A r \in 1..Len(rows) :
                       table[r + 1] =
                           [j \in 1..Len(header) |-> CellText(rows[r], header[j])]

\* witness of C11: two records, the second bringing keys the first lacks and
\* lacking none itself, so that the first row has empty cells
C11_Witness ==
    /\ TableCalled
    /\ Len(locals.flattened) = 2
    /\ \E k \in Range(DictKeys(locals.flattened[2])) : ~HasKey(locals.flattened[1], k)
    /\ DictKeys(locals.flattened[1]) # <<>>
    /\ Len(CsvRead(ret.v, 1, FALSE, FALSE, <<>>, <<>>)) = 3

(***************************************************************************)
(* Properties of the filtered-JSON rendering.                              *)
(***************************************************************************)
\* the filtered-JSON formatter was called, directly or by apply_filters
\* after the parsing and the aggregation
JsonCalled ==
    \/ call = "json_to_json_filtered"
    \/ /\ call = "apply_filters"
       /\ arg.options.format = PyStr(s_json)
       /\ ~IsRaise(filters_parsed_data(arg.data, arg.options))

\* it flattens the records
JsonFlattens == call = "apply_filters" \/ ~arg.preserve_structure

\* the object a record is rendered as: its flattening, a record that is no
\* object becoming the object with the single key `value` holding its string
\* form; restricted to the include list when one is given
RenderedObject(record, include) ==
    LET flat == IF IsDict(record) THEN _flatten_dict(record, <<>>, <<"_">>)
                ELSE D1(s_value, str(record))
    IN  IF include = None THEN flat
        ELSE PyDict(SelectSeq(flat.v, LAMBDA kv : PyStr(kv[1]) \in Range(include.v)))

\* C12: the filtered-JSON rendering always yields a list at the top level,
\* with as many elements as there are extracted records, a bare object
\* giving one element; the i-th element is the flattened, filtered i-th
\* record, a record that is no object being rendered as an object with the
\* single key `value` holding its string form.
C12_JsonAlwaysList ==
    JsonCalled =>
        /\ IsStr(ret)
        /\ Head(ret.v) = "[" /\ ret.v[Len(ret.v)] = "]"
        /\ locals # NoLocals =>
              /\ Len(locals.flattened) = Len(locals.records)
              /\ ret.v = json_dumps(PyList(locals.flattened), TRUE, 0)
              /\ JsonFlattens =>
                    \A i \in 1..Len(locals.records) :
                        locals.flattened[i] = RenderedObject(locals.records[i], IncludeList)

(***************************************************************************)
(* Properties of the handling of malformed response text.                  *)
(***************************************************************************)
\* the empty sentinel of a format
Sentinel(format) ==
    CASE format = PyStr(s_csv) -> PyStr(<<>>)
      [] format = PyStr(s_json) -> PyStr(<<"[", "]">>)
      [] format = PyStr(s_compact) -> PyStr(<<"{", "}">>)

\* a formatter was called with a string that is no JSON text
MalformedToFormatter ==
    /\ call \in {"json_to_csv_filtered", "json_to_json_filtered", "json_to_compact"}
    /\ arg.json_input = BadText

\* apply_filters was called with such a string and one of the three formats
MalformedToApplyFilters ==
    /\ call = "apply_filters"
    /\ arg.data = BadText
    /\ arg.options.format \in {PyStr(s_csv), PyStr(s_json), PyStr(s_compact)}

\* C13: a string that is no valid JSON text never fails a formatting call.
\* A formatter called with it returns the empty sentinel of its format, and
\* so does apply_filters for the selected format, with or without an
\* aggregation requested.
C13_MalformedDegrades ==
    /\ MalformedToFormatter =>
          ret = Sentinel(CASE call = "json_to_csv_filtered" -> PyStr(s_csv)
                           [] call = "json_to_json_filtered" -> PyStr(s_json)
                           [] call = "json_to_compact" -> PyStr(s_compact))
    /\ MalformedToApplyFilters => ret = Sentinel(arg.options.format)

(***************************************************************************)
(* Properties of the whole pipeline.                                       *)
(***************************************************************************)
\* the response of an apply_filters call as a parsed value
ResponseValue == IF arg.data.t = "text" THEN arg.data.value ELSE arg.data

\* the record list of an envelope that holds its records as a list
ListedRecords(d) ==
    IF IsDict(d) /\ HasKey(d, s_results) /\ IsList(GetItem(d, s_results))
    THEN GetItem(d, s_results).v
    ELSE IF IsList(d) THEN d.v
    ELSE <<>>

\* apply_filters called on an envelope with a non-empty list of records, be
\* it JSON text or a parsed value, with an include list, first or last, and
\* one of the three formats
EndToEndCase ==
    /\ call = "apply_filters"
    /\ arg.data # BadText
    /\ ListedRecords(ResponseValue) # <<>>
    /\ arg.options.fields # None
    /\ arg.options.aggregate \in FirstOrLast
    /\ arg.options.format \in {PyStr(s_csv), PyStr(s_json), PyStr(s_compact)}

\* the one record the claim expects to be rendered
EndToEndRecord ==
    RenderedObject(Selected(ListedRecords(ResponseValue), arg.options.aggregate),
                   arg.options.fields)

\* C14: for every envelope whose records form a non-empty list, every include
\* list, first and last, and every format, apply_filters renders exactly one
\* record: the flattened first (last) record of the input restricted to the
\* include list, whether the input is JSON text or the parsed value.
C14_EndToEnd ==
    EndToEndCase =>
        /\ IsStr(ret)
        /\ locals # NoLocals
        /\ locals.flattened = <<EndToEndRecord>>
        /\ CASE arg.options.format = PyStr(s_csv) ->
                   CsvRead(ret.v, 1, FALSE, FALSE, <<>>, <<>>) =
                       << DictKeys(EndToEndRecord),
                          [j \in 1..Len(EndToEndRecord.v) |->
                              CellText(EndToEndRecord, EndToEndRecord.v[j][1])] >>
             [] arg.options.format = PyStr(s_json) ->
                   ret.v = json_dumps(PyList(<<EndToEndRecord>>), TRUE, 0)
             [] arg.options.format = PyStr(s_compact) ->
                   ret.v = json_dumps(EndToEndRecord, FALSE, 0)

(***************************************************************************)
(* Properties of the flattener's key collisions.                           *)
(***************************************************************************)
RECURSIVE LeafSeq(_)
\* the <<path, value>> pairs of the values of d that are no dict, in the
\* depth-first iteration order of d
LeafSeq(d) ==
    Concat([i \in 1..Len(d.v) |->
               IF IsDict(d.v[i][2])
               THEN LET below == LeafSeq(d.v[i][2])
                    IN  [j \in 1..Len(below) |->
                            << <<d.v[i][1]>> \o below[j][1], below[j][2] >>]
               ELSE << << <<d.v[i][1]>>, d.v[i][2] >> >>])

RECURSIVE Nest(_, _)
\* the object that holds the value under the path and nothing else
Nest(path, value) ==
    IF Len(path) = 1 THEN D1(path[1], value)
    ELSE D1(path[1], Nest(Tail(path), value))

\* the key a path flattens to: the one key of the flattening of the object
\* that holds this path alone
FlatKey(path, parent_key, sep) ==
    _flatten_dict(Nest(path, None), parent_key, sep).v[1][1]

\* C15: when two distinct nested paths of one record flatten to the same
\* joined key, the output holds that key exactly once and its value is the
\* value of the path that comes later in the depth-first iteration order of
\* the record (a list value in its string form).
C15_CollisionLastWins ==
    call = "_flatten_dict" =>
        LET leaves == LeafSeq(arg.d)
            key(i) == FlatKey(leaves[i][1], arg.parent_key, arg.sep)
        IN  \A i, j \in 1..Len(leaves) :
                (i < j /\ key(i) = key(j)
                   /\ \A m \in (j + 1)..Len(leaves) : key(m) # key(j))
                => /\ Cardinality({n \in 1..Len(ret.v) : ret.v[n][1] = key(j)}) = 1
                   /\ GetItem(ret, key(j)) =
                          IF IsList(leaves[j][2]) THEN str(leaves[j][2])
                          ELSE leaves[j][2]

\* witness of C15: the nested path a -> b written after the top-level key a_b
C15_Witness ==
    /\ call = "_flatten_dict"
    /\ arg.d = D2(k_a_b, PyInt(9), k_a, D1(k_b, PyInt(3)))
    /\ arg.parent_key = <<>>
    /\ ret = D1(k_a_b, PyInt(3))

(***************************************************************************)
(* Properties of the ASGI application.                                     *)
(***************************************************************************)
\* the request is one the application answers itself
OwnPath ==
    /\ scope.type = "http"
    /\ scope_path(scope) \in {"/", "/healthz", "/health", "/api/market_query"}

\* app is over: it returned or an exception left it
Finished == pc \in {"returned", "raised"}

SentTypes == [i \in 1..Len(sent) |-> sent[i].type]

\* C16: an HTTP request to a health path or to /api/market_query is answered
\* by the application itself with exactly one http.response.start followed
\* by exactly one http.response.body, whatever the method, the body, the
\* outcome of massive_query or of a send: never a second start, never no
\* response at all, and never a call of the MCP application.  Every other
\* request is handed to the MCP application and the application itself
\* sends nothing.
C16_ExactlyOneResponse ==
    /\ (pc # "idle" /\ OwnPath) =>
          /\ handed = 0
          /\ Cardinality({i \in 1..Len(sent) : sent[i].type = "http.response.start"}) <= 1
          /\ Len(sent) <= 2
          /\ SentTypes = SubSeq(<<"http.response.start", "http.response.body">>, 1, Len(sent))
    /\ (Finished /\ OwnPath) =>
          /\ sent # <<>>
          /\ raised = None => Len(sent) = 2
    /\ (pc # "idle" /\ ~OwnPath) =>
          /\ sent = <<>>
          /\ Finished => handed = 1 /\ raised = None

\* the bodies of the http.request messages among the first n of the stream
RECURSIVE BodiesUpTo(_)
BodiesUpTo(n) ==
    IF n = 0 THEN <<>>
    ELSE BodiesUpTo(n - 1)
            \o (IF stream[n].type = "http.request" THEN message_body(stream[n]) ELSE <<>>)

\* read_body is running
InReadBody == pc \in {"read_body_receive", "read_body_message"}

\* the message is an http.request whose `more_body` is false
FinalChunk(m) == m.type = "http.request" /\ ~message_more_body(m)

\* C17: read_body terminates for every stream receive can deliver.  It
\* returns at the first http.request message whose `more_body` is false,
\* with the body chunks of all http.request messages joined in the order of
\* arrival, and it returns as well when the client disconnects before a
\* final chunk.
C17_ReadBodyTerminates ==
    /\ [](pc = "json_loads" =>
             /\ FinalChunk(stream[delivered])
             /\ \A n \in 1..(delivered - 1) : ~FinalChunk(stream[n])
             /\ frame.raw = BodiesUpTo(delivered))
    /\ InReadBody ~> ~InReadBody

====
